---- MODULE Spec2Model ----
(***************************************************************************)
(* Model of keyword_only_args.decorator_factory: a decorator that gives a  *)
(* function with positional-or-keyword parameters keyword-only parameters. *)
(*                                                                         *)
(* decorator_factory, given kw_only_parameters, returns decorator(wrapped), *)
(* which computes the configuration (names_defaults, names_with_defaults,  *)
(* names, kw_only_names) and returns wrapper, called with args and kws.    *)
(*                                                                         *)
(* The wrapper never inspects a value, it only moves values around, so     *)
(* every value carries a label that tells where it comes from: "p3" is the *)
(* third positional argument of the call, "k_b" the value passed as b=..., *)
(* "d_b" the default of parameter b.                                       *)
(***************************************************************************)
EXTENDS Integers, Sequences, FiniteSets, TLC

\* Largest number of declared parameters of a wrapped function.
MaxParams == 3
\* Largest number of positional arguments of a call.
MaxArgs == 3
\* Largest number of calls made to one decorated function.
MaxCalls == 2

\* Parameter names, in the order a signature declares them; also the names
\* decorator_factory may be given.
ParamPool == <<"a", "b", "c", "d", "e">>
\* A name no signature declares; a call may pass it as a named argument.
ExtraName == "z"

VARIABLES
    pc,                  \* "start", "factory", "decorated" or "called"
    kw_only_parameters,  \* the names given to decorator_factory
    wrapped,             \* the decorated function, as getargspec sees it
    names_with_defaults, \* closure of decorator, line 59
    names_defaults,      \* closure of decorator, lines 60-63
    names,               \* closure of decorator, line 65
    kw_only_names,       \* closure of decorator, lines 66-69
    args,                \* positional arguments of the current call
    kws,                 \* named arguments of the current call
    outcome,             \* what the current call did
    ncalls               \* how many calls the wrapper has had so far

vars == <<pc, kw_only_parameters, wrapped, names_with_defaults, names_defaults,
          names, kw_only_names, args, kws, outcome, ncalls>>

config == <<kw_only_parameters, wrapped, names_with_defaults, names_defaults,
            names, kw_only_names>>

(***************************************************************************)
(* Python values and containers.                                           *)
(***************************************************************************)
no_default == "NoDefault"
FuncName == "f"

PosVal(i) == "p" \o ToString(i)
KwVal(n) == "k_" \o n
DefVal(n) == "d_" \o n

EmptyDict == [n \in {} |-> ""]

Range(s) == {s[i] : i \in 1..Len(s)}
Min(x, y) == IF x <= y THEN x ELSE y
Max(x, y) == IF x >= y THEN x ELSE y

Reversed(s) == [i \in 1..Len(s) |-> s[Len(s) + 1 - i]]

\* itertools.zip_longest(s, t, fillvalue=fill), for Len(t) <= Len(s)
ZipLongest(s, t, fill) ==
    [i \in 1..Max(Len(s), Len(t)) |->
        <<IF i <= Len(s) THEN s[i] ELSE fill, IF i <= Len(t) THEN t[i] ELSE fill>>]

\* a slip of the index: the value goes in one place too far
ListInsertAfter(s, index, x) ==
    LET j == Min(index + 1, Len(s))
    IN  SubSeq(s, 1, j) \o <<x>> \o SubSeq(s, j + 1, Len(s))

\* list.insert(index, x), index counted from 0; past the end it appends
ListInsert(s, index, x) ==
    LET j == Min(index, Len(s))
    IN  SubSeq(s, 1, j) \o <<x>> \o SubSeq(s, j + 1, Len(s))

\* dict.pop(name, default): the value, and the dict that is left
PopValue(d, name, default) == IF name \in DOMAIN d THEN d[name] ELSE default
PopRest(d, name) == [n \in DOMAIN d \ {name} |-> d[n]]

RECURSIVE Join(_, _)
\* sep.join(s)
Join(s, sep) ==
    IF Len(s) = 0 THEN ""
    ELSE IF Len(s) = 1 THEN s[1]
    ELSE s[1] \o sep \o Join(Tail(s), sep)

Quoted(s) == [i \in 1..Len(s) |-> "'" \o s[i] \o "'"]

(***************************************************************************)
(* Outcomes of a call of the wrapper.                                      *)
(***************************************************************************)
NoReturn == [bind |-> EmptyDict, star |-> <<>>, extra |-> EmptyDict]

NoOutcome ==
    [kind |-> "none", stage |-> "", message |-> "", forwarded |-> FALSE,
     fargs |-> <<>>, fkws |-> EmptyDict, ret |-> NoReturn]

\* an exception raised by the wrapper itself, before wrapped is called
Raise(exc, stage, message) ==
    [kind |-> exc, stage |-> stage, message |-> message, forwarded |-> FALSE,
     fargs |-> <<>>, fkws |-> EmptyDict, ret |-> NoReturn]

(***************************************************************************)
(* Python's binding of a call to a function whose positional-or-keyword    *)
(* parameters are posnames (in order), whose keyword-only parameters are   *)
(* kwonly, and whose defaults are given by default[name] (no_default for   *)
(* none).  The functions the tests generate return their parameters, args  *)
(* and kws, so the result is the binding itself.                           *)
(***************************************************************************)
CallFunction(posnames, kwonly, default, varargs, varkw, pos, kw) ==
    LET params == Range(posnames) \cup kwonly
        npos == Min(Len(pos), Len(posnames))
        byPos == {posnames[i] : i \in 1..npos}
        missing == {n \in params : n \notin byPos /\ n \notin DOMAIN kw
                                      /\ default[n] = no_default}
        index(n) == CHOOSE i \in 1..Len(posnames) : posnames[i] = n
    IN  IF \/ Len(pos) > Len(posnames) /\ ~varargs
           \/ byPos \cap DOMAIN kw # {}
           \/ ~varkw /\ ~(DOMAIN kw \subseteq params)
           \/ missing # {}
        THEN [kind |-> "TypeError", ret |-> NoReturn]
        ELSE [kind |-> "return",
              ret |-> [bind |-> [n \in params |->
                                    IF n \in byPos THEN pos[index(n)]
                                    ELSE IF n \in DOMAIN kw THEN kw[n]
                                    ELSE default[n]],
                       star |-> SubSeq(pos, Len(posnames) + 1, Len(pos)),
                       extra |-> [n \in DOMAIN kw \ params |-> kw[n]]]]

\* the default of each declared parameter of w, no_default where it has none
DefaultOf(w) ==
    [n \in Range(w.names) |->
        LET i == CHOOSE j \in 1..Len(w.names) : w.names[j] = n
            k == i - (Len(w.names) - Len(w.defaults))
        IN  IF k >= 1 THEN w.defaults[k] ELSE no_default]

\* the call of wrapped with fargs and fkws, line 118
CallWrapped(w, fargs, fkws) ==
    CallFunction(w.names, {}, DefaultOf(w), w.varargs, w.varkw, fargs, fkws)

(***************************************************************************)
(* decorator(wrapped): the configuration, lines 54-69.                     *)
(***************************************************************************)
\* line 59
NamesWithDefaults(argnames, defaults) ==
    Range(SubSeq(argnames, Len(argnames) - Len(defaults) + 1, Len(argnames)))

\* lines 60-63
NamesDefaults(argnames, defaults) ==
    Reversed(ZipLongest(Reversed(argnames), Reversed(defaults), no_default))

\* a slip of lines 66-69: the names given are added to the defaulted ones
KwOnlyNamesAdded(parameters, with_defaults) ==
    Range(parameters) \cup with_defaults

\* lines 66-69
KwOnlyNames(parameters, with_defaults) ==
    IF Len(parameters) > 0 THEN Range(parameters) ELSE with_defaults

(***************************************************************************)
(* _wrong_args, lines 124-136.                                             *)
(***************************************************************************)
\* line 126-127: the missing names in declaration order, the first
\* number_of_args of them dropped
OrderedArgs(nds, missing_args, number_of_args) ==
    LET declared == [i \in 1..Len(nds) |-> nds[i][1]]
        ordered == SelectSeq(declared, LAMBDA a : a \in missing_args)
    IN  SubSeq(ordered, number_of_args + 1, Len(ordered))

\* lines 128-135
ErrorMessage(ordered_args, arg_type) ==
    LET head == FuncName \o "() missing " \o ToString(Len(ordered_args))
                    \o " required " \o arg_type \o " argument"
        quoted == Quoted(ordered_args)
    IN  IF Len(ordered_args) = 1
        THEN head \o ": " \o quoted[1]
        ELSE head \o "s: " \o Join(SubSeq(quoted, 1, Len(quoted) - 1), " ")
                  \o " and " \o quoted[Len(quoted)]

wrong_args(nds, missing_args, arg_type, number_of_args) ==
    LET ordered_args == OrderedArgs(nds, missing_args, number_of_args)
    IN  IF Len(ordered_args) = 0
        THEN \* ordered_args[-1] of an empty list, line 135
             Raise("IndexError", arg_type, "list index out of range")
        ELSE Raise("TypeError", arg_type, ErrorMessage(ordered_args, arg_type))

(***************************************************************************)
(* wrapper, lines 88-118.                                                  *)
(***************************************************************************)
\* line 96
TakesMessage(nnames, nbound, nargs) ==
    FuncName \o "() takes " \o ToString(nnames - nbound)
        \o " positional arguments but " \o ToString(nargs) \o " was given"

RECURSIVE SpliceFrom(_, _, _, _, _, _)
\* lines 115-117, from position i of names_defaults on; the result is the
\* pair <<args, kws>> after the loop
SpliceFrom(i, nds, kwonly, bound, a, k) ==
    IF i > Len(nds) THEN <<a, k>>
    ELSE LET name == nds[i][1]
             default == nds[i][2]
         IN  IF name \in kwonly \/ name \in bound
             THEN SpliceFrom(i + 1, nds, kwonly, bound,
                             ListInsert(a, i - 1, PopValue(k, name, default)),
                             PopRest(k, name))
             ELSE SpliceFrom(i + 1, nds, kwonly, bound, a, k)

\* a slip of line 116: only the keyword-only names are moved
SpliceKwOnly(nds, kwonly, declared, a, k) ==
    SpliceFrom(1, nds, kwonly, {}, a, k)

\* lines 112-117
Splice(nds, kwonly, declared, a, k) ==
    SpliceFrom(1, nds, kwonly, DOMAIN k \cap declared, a, k)

\* line 118
Forward(w, fargs, fkws) ==
    LET r == CallWrapped(w, fargs, fkws)
    IN  [kind |-> r.kind, stage |-> "wrapped", message |-> "", forwarded |-> TRUE,
         fargs |-> fargs, fkws |-> fkws, ret |-> r.ret]

\* line 95: is the number of positional arguments wrong?
WrongCount(declared, bound_kw_names, a) ==
    Len(a) # Cardinality(declared \ bound_kw_names)

Wrapper(w, nds, with_defaults, declared, kwonly, a, k) ==
    LET kw_names == DOMAIN k
        bound_kw_names == kw_names \cup with_defaults
    IN  IF WrongCount(declared, bound_kw_names, a)
        THEN Raise("TypeError", "count",
                   TakesMessage(Cardinality(declared), Cardinality(bound_kw_names),
                                Len(a)))
        ELSE IF ~(kwonly \subseteq bound_kw_names)
        THEN wrong_args(nds, kwonly \ bound_kw_names, "keyword-only", 0)
        ELSE IF Len(a) < Cardinality(declared \ bound_kw_names)
        THEN wrong_args(nds, declared \ bound_kw_names, "positional", Len(a))
        ELSE LET s == Splice(nds, kwonly, declared, a, k)
             IN  Forward(w, s[1], s[2])

(***************************************************************************)
(* The state machine.                                                      *)
(***************************************************************************)
NoFunction == [names |-> <<>>, defaults |-> <<>>, varargs |-> FALSE, varkw |-> FALSE]

Init ==
    /\ pc = "start"
    /\ kw_only_parameters = <<>>
    /\ wrapped = NoFunction
    /\ names_with_defaults = {}
    /\ names_defaults = <<>>
    /\ names = {}
    /\ kw_only_names = {}
    /\ args = <<>>
    /\ kws = EmptyDict
    /\ outcome = NoOutcome
    /\ ncalls = 0

\* the names of S in the order of ParamPool
InPoolOrder(S) == SelectSeq(ParamPool, LAMBDA n : n \in S)

\* decorator_factory, lines 21-40 and 121
Factory(parameters) ==
    /\ pc = "start"
    /\ pc' = "factory"
    /\ kw_only_parameters' = parameters
    /\ UNCHANGED <<wrapped, names_with_defaults, names_defaults, names,
                   kw_only_names, args, kws, outcome, ncalls>>

\* decorator(wrapped), lines 54-69 and 119
Decorate(w) ==
    /\ pc = "factory"
    /\ pc' = "decorated"
    /\ wrapped' = w
    /\ names_with_defaults' = NamesWithDefaults(w.names, w.defaults)
    /\ names_defaults' = NamesDefaults(w.names, w.defaults)
    /\ names' = Range(w.names)
    /\ kw_only_names' = KwOnlyNames(kw_only_parameters,
                                    NamesWithDefaults(w.names, w.defaults))
    /\ UNCHANGED <<kw_only_parameters, args, kws, outcome, ncalls>>

\* a slip of line 91: the named arguments are added to names_with_defaults
\* itself instead of to a copy
CallUpdating(a, k) ==
    /\ pc = "decorated"
    /\ ncalls < MaxCalls
    /\ ncalls' = ncalls + 1
    /\ pc' = "called"
    /\ args' = a
    /\ kws' = k
    /\ outcome' = Wrapper(wrapped, names_defaults, names_with_defaults, names,
                          kw_only_names, a, k)
    /\ names_with_defaults' = names_with_defaults \cup DOMAIN k
    /\ UNCHANGED <<kw_only_parameters, wrapped, names_defaults, names, kw_only_names>>

\* one call of wrapper, lines 72-118
Call(a, k) ==
    /\ pc = "decorated"
    /\ ncalls < MaxCalls
    /\ ncalls' = ncalls + 1
    /\ pc' = "called"
    /\ args' = a
    /\ kws' = k
    /\ outcome' = Wrapper(wrapped, names_defaults, names_with_defaults, names,
                          kw_only_names, a, k)
    /\ UNCHANGED config

\* the caller makes the call it has just made once more
CallAgain ==
    /\ pc = "called"
    /\ ncalls < MaxCalls
    /\ ncalls' = ncalls + 1
    /\ outcome' = Wrapper(wrapped, names_defaults, names_with_defaults, names,
                          kw_only_names, args, kws)
    /\ UNCHANGED <<pc, args, kws>>
    /\ UNCHANGED config

\* the call is over: its result or exception went to the caller, and the
\* call's own args and kws are gone
Return ==
    /\ pc = "called"
    /\ pc' = "decorated"
    /\ args' = <<>>
    /\ kws' = EmptyDict
    /\ outcome' = NoOutcome
    /\ UNCHANGED <<config, ncalls>>

\* the inputs
KwOnlyParameters == {InPoolOrder(S) : S \in SUBSET Range(SubSeq(ParamPool, 1, MaxParams))}

FunctionsOf(n) ==
    {[names |-> SubSeq(ParamPool, 1, n),
      defaults |-> [i \in 1..nd |-> DefVal(ParamPool[n - nd + i])],
      varargs |-> va, varkw |-> vk] :
        nd \in 0..n, va \in BOOLEAN, vk \in BOOLEAN}

Functions == UNION {FunctionsOf(n) : n \in 0..MaxParams}

PositionalArgs == {[i \in 1..n |-> PosVal(i)] : n \in 0..MaxArgs}

NamedArgs == {[n \in S |-> KwVal(n)] : S \in SUBSET (names \cup {ExtraName})}

Next ==
    \/ \E p \in KwOnlyParameters : Factory(p)
    \/ \E w \in Functions : Decorate(w)
    \/ \E a \in PositionalArgs, k \in NamedArgs : Call(a, k)
    \/ CallAgain
    \/ Return

Spec == Init /\ [][Next]_vars

(***************************************************************************)
(* The function with native keyword-only parameters that the decorated one *)
(* stands for: the parameters outside kw_only_names stay positional-or-    *)
(* keyword, in their declared order, those in it are keyword-only.         *)
(***************************************************************************)
HasNative == pc = "called" /\ kw_only_names \subseteq names

Native ==
    CallFunction(SelectSeq(wrapped.names, LAMBDA n : n \notin kw_only_names),
                 kw_only_names, DefaultOf(wrapped), wrapped.varargs, wrapped.varkw,
                 args, kws)

\* the names of S in declaration order
Ordered(S) == SelectSeq(wrapped.names, LAMBDA n : n \in S)

\* the declared parameters with a default, read off the signature
Defaulted == {n \in Range(wrapped.names) : DefaultOf(wrapped)[n] # no_default}

\* C1: every call the native keyword-only function accepts is accepted by
\* the wrapper, and the wrapped function returns what the native one returns
\* (the same value for every parameter, the same args and kws).
C1_SameAsNative ==
    (HasNative /\ Native.kind = "return")
        => (outcome.kind = "return" /\ outcome.ret = Native.ret)

\* C2: every call the native keyword-only function rejects with a TypeError
\* makes the wrapper raise a TypeError too.
C2_RejectsWhatNativeRejects ==
    (HasNative /\ Native.kind = "TypeError") => outcome.kind = "TypeError"

\* the keyword-only parameters of the call that have neither a named
\* argument nor a default
UncoveredKwOnly ==
    {n \in kw_only_names \cap Range(wrapped.names) :
        n \notin DOMAIN kws /\ n \notin Defaulted}

\* C3: a call that leaves a keyword-only parameter without default unnamed
\* gets the "missing ... required keyword-only argument" error, listing
\* exactly the uncovered keyword-only parameters in declaration order,
\* whatever its positional arguments are, and wrapped is not called.
C3_MissingKwOnlyFirst ==
    (pc = "called" /\ UncoveredKwOnly # {})
        => /\ outcome.kind = "TypeError"
           /\ outcome.stage = "keyword-only"
           /\ outcome.message = ErrorMessage(Ordered(UncoveredKwOnly), "keyword-only")
           /\ ~outcome.forwarded

\* the parameters of the call that have neither a named argument nor a
\* default
Uncovered == {n \in Range(wrapped.names) : n \notin DOMAIN kws /\ n \notin Defaulted}

AllKwOnlyCovered == kw_only_names \subseteq (DOMAIN kws \cup Defaulted)

\* C4: with every keyword-only parameter covered, fewer positional arguments
\* than uncovered parameters give the "missing ... required positional
\* argument" error listing the uncovered parameters in declaration order
\* after the first len(args) of them; with at least that many the call is
\* not rejected for its positional count.
C4_MissingPositional ==
    (pc = "called" /\ AllKwOnlyCovered)
        => /\ Len(args) < Cardinality(Uncovered)
                => /\ outcome.kind = "TypeError"
                   /\ outcome.stage = "positional"
                   /\ outcome.message =
                        ErrorMessage(SubSeq(Ordered(Uncovered), Len(args) + 1,
                                            Cardinality(Uncovered)), "positional")
           /\ Len(args) >= Cardinality(Uncovered) => outcome.stage # "count"

\* the parameters that names_defaults pairs with a default
PairedWithDefault ==
    {names_defaults[i][1] : i \in {j \in 1..Len(names_defaults) :
                                      names_defaults[j][2] # no_default}}

\* C5: decorated with no names, the keyword-only set is exactly the set of
\* parameters with a default; decorated with names, it is exactly those
\* names, so a defaulted parameter that is not named is not keyword-only.
C5_KwOnlySet ==
    pc \in {"decorated", "called"}
        => /\ Len(kw_only_parameters) = 0 => kw_only_names = PairedWithDefault
           /\ Len(kw_only_parameters) > 0 => kw_only_names = Range(kw_only_parameters)

\* C5 witness: a function decorated with names that leave out one of its
\* defaulted parameters
C5_Witness ==
    /\ pc = "decorated"
    /\ Len(kw_only_parameters) > 0
    /\ kw_only_names \subseteq names
    /\ PairedWithDefault \ kw_only_names # {}
    /\ kw_only_names \ PairedWithDefault # {}

\* the message the claim describes: the count, then one quoted name, or the
\* quoted names joined by ", " with " and " before the last
ClaimedMessage(ordered_args, arg_type) ==
    LET head == FuncName \o "() missing " \o ToString(Len(ordered_args))
                    \o " required " \o arg_type \o " argument"
        quoted == Quoted(ordered_args)
    IN  IF Len(ordered_args) = 1
        THEN head \o ": " \o quoted[1]
        ELSE head \o "s: " \o Join(SubSeq(quoted, 1, Len(quoted) - 1), ", ")
                  \o " and " \o quoted[Len(quoted)]

\* C6: the message of a missing-argument error states the number of names
\* listed, uses "argument: 'x'" for one name and "arguments: " otherwise, and
\* joins the names with ", " and a final " and ".
C6_MessageGrammar ==
    (pc = "called" /\ outcome.kind = "TypeError" /\ outcome.stage = "keyword-only")
        => outcome.message = ClaimedMessage(Ordered(UncoveredKwOnly), "keyword-only")

\* C7: decorated with names, the keyword-only set holds declared parameters
\* only, so no call meets a keyword-only name that is not a parameter and
\* every error of a call is a TypeError.
C7_KwOnlyDeclared ==
    (pc \in {"decorated", "called"} /\ Len(kw_only_parameters) > 0)
        => /\ kw_only_names \subseteq names
           /\ outcome.kind \in {"none", "return", "TypeError"}

\* C8: in a call that passes validation, every parameter that is
\* keyword-only or passed by name has its value (the named value, else its
\* default) at its declared index of the forwarded positional list.
C8_SplicedAtDeclaredIndex ==
    (pc = "called" /\ outcome.forwarded)
        => \A i \in 1..Len(wrapped.names) :
              LET n == wrapped.names[i]
              IN  (n \in kw_only_names \/ n \in DOMAIN kws)
                    => /\ Len(outcome.fargs) >= i
                       /\ outcome.fargs[i] = PopValue(kws, n, DefaultOf(wrapped)[n])

\* C9: in a call that passes validation, the named arguments forwarded are
\* exactly the caller's named arguments that name no declared parameter,
\* values unchanged.
C9_ForwardedKws ==
    (pc = "called" /\ outcome.forwarded)
        => /\ DOMAIN outcome.fkws = DOMAIN kws \ Range(wrapped.names)
           /\ \A n \in DOMAIN outcome.fkws : outcome.fkws[n] = kws[n]

\* C9 witness: a forwarded call that named a keyword-only parameter, a
\* parameter that is not keyword-only, and a name that is no parameter
C9_Witness ==
    /\ pc = "called"
    /\ outcome.forwarded
    /\ ExtraName \in DOMAIN kws
    /\ DOMAIN kws \cap kw_only_names # {}
    /\ (DOMAIN kws \cap names) \ kw_only_names # {}

\* C10: a call leaves the configuration of decoration time as it is, and a
\* call repeated with the same arguments has the same outcome.
C10_CallsLeaveConfig ==
    [][/\ pc \in {"decorated", "called"} => config' = config
       /\ (pc = "called" /\ pc' = "called" /\ args' = args /\ kws' = kws)
            => outcome' = outcome]_vars

\* C10 witness: a later call to the same wrapper, made with named arguments
\* to a function that has defaults, returns
C10_Witness ==
    /\ pc = "called"
    /\ ncalls = MaxCalls
    /\ outcome.kind = "return"
    /\ names_with_defaults # {}
    /\ DOMAIN kws # {}

\* the declared parameters of the call that take a positional argument:
\* those with neither a named argument nor a default, in declaration order
TakenByPosition == Ordered(Uncovered)

\* the place of parameter n among those of TakenByPosition
PlaceOf(n) == CHOOSE j \in 1..Len(TakenByPosition) : TakenByPosition[j] = n

====
